---- MODULE Spec2Model ----
(***************************************************************************)
(* Bundle ledger and order engine of DriveEt                               *)
(* (src/core/services.py, src/core/models.py, src/payments/verification.py)*)
(*                                                                         *)
(* The database is the state: UserBundle rows, the UserProfile active      *)
(* pointer, the ResourceTransaction log, BundleOrder rows,                 *)
(* OrderBundleSuggestion rows and BundlePurchase receipts.  Requests run   *)
(* as processes; a request that spans several database statements outside  *)
(* one transaction is split at the points where another request can run.   *)
(*                                                                         *)
(* Time is counted in hours from a midnight; the clock moves in steps of   *)
(* a day, or of half a day where the time of day matters (SpecResets).     *)
(* Amounts are in ETB.  A NULL column is the value Null.                   *)
(*                                                                         *)
(* The database locks rows: a transaction.atomic block that starts with    *)
(* select_for_update is one step.  accept_suggestion and cancel_order are  *)
(* one step each.  Every user has a profile and every order a payment      *)
(* method.  Spec runs the ledger requests on bundles that exist;           *)
(* SpecOrders runs the order engine from an empty database;                *)
(* SpecActivation runs consumption against order completion; SpecResets    *)
(* runs the two daily reset paths.  ret holds what the step just taken     *)
(* returned to its caller.                                                 *)
(***************************************************************************)
EXTENDS Integers, Sequences, FiniteSets, TLC

(* ------------------------------ bounds --------------------------------- *)
MaxTime == 48
MaxOrders == 1
MaxLedger == 4

(* -------------------------- program constants -------------------------- *)
HoursPerDay == 24
MockAmount == 500
TopSuggestions == 3
PopularOrder == 50
Null == -1

Users == {"u1", "u2"}
Buyers == {"u1"}
Procs == {"p1", "p2"}
References == {"TEST1", "BAD1"}
ResourceTypes == {"exam", "chat", "search", "road_sign"}
Quantities == {1, 2}

(* BundleDefinition rows.  Quota 0 means unlimited. *)
DefIds == {"free", "basic", "unl", "pro", "max"}
Catalog ==
  [d \in DefIds |->
     CASE d = "free"  -> [exam_quota |-> 1, total_chat_quota |-> 1, daily_chat_limit |-> 1,
                          search_quota |-> 1, has_unlimited_road_sign_quiz |-> FALSE,
                          validity_days |-> 1, price_etb |-> 0, order |-> 1]
       [] d = "basic" -> [exam_quota |-> 2, total_chat_quota |-> 2, daily_chat_limit |-> 1,
                          search_quota |-> 1, has_unlimited_road_sign_quiz |-> TRUE,
                          validity_days |-> 1, price_etb |-> 400, order |-> 4]
       [] d = "unl"   -> [exam_quota |-> 0, total_chat_quota |-> 0, daily_chat_limit |-> 0,
                          search_quota |-> 0, has_unlimited_road_sign_quiz |-> FALSE,
                          validity_days |-> 1, price_etb |-> 500, order |-> 50]
       [] d = "pro"   -> [exam_quota |-> 3, total_chat_quota |-> 3, daily_chat_limit |-> 2,
                          search_quota |-> 2, has_unlimited_road_sign_quiz |-> TRUE,
                          validity_days |-> 2, price_etb |-> 700, order |-> 2]
       [] OTHER       -> [exam_quota |-> 1, total_chat_quota |-> 0, daily_chat_limit |-> 2,
                          search_quota |-> 1, has_unlimited_road_sign_quiz |-> TRUE,
                          validity_days |-> 1, price_etb |-> 900, order |-> 60]]

(* The sets of definitions the administrator may have left active. *)
ActiveSets == {{"basic", "pro"}, {"max"}, {"free", "pro"}}

(* The bundles held when the ledger requests start: owner and definition   *)
(* of each, in purchase order.                                             *)
Holdings == {<<<<"u1", "basic">>>>,
             <<<<"u1", "max">>>>,
             <<<<"u2", "unl">>, <<"u1", "basic">>>>}

VARIABLES
  now,          \* timezone.now(), in hours
  activeDefs,   \* BundleDefinition ids with is_active = True
  bundles,      \* UserBundle rows, indexed by primary key 1..Len
  active,       \* UserProfile.active_bundle per user (0 = NULL)
  ledger,       \* ResourceTransaction rows in creation order
  orders,       \* BundleOrder rows, indexed by primary key 1..Len
  suggestions,  \* OrderBundleSuggestion rows
  purchases,    \* BundlePurchase rows
  proc,         \* per request process in flight: position, arguments, locals
  ret           \* what the step just taken returned: the call and its result

vars == <<now, activeDefs, bundles, active, ledger, orders, suggestions, purchases, proc, ret>>

dbVars == <<activeDefs, bundles, active, ledger, orders, suggestions, purchases>>

(* ------------------------- BundleDefinition ---------------------------- *)
is_unlimited_exams(d) == Catalog[d].exam_quota = 0
is_unlimited_chats(d) == Catalog[d].total_chat_quota = 0
is_unlimited_search(d) == Catalog[d].search_quota = 0

(* --------------------------- UserBundle -------------------------------- *)
(* A column without the constraint. *)
IntegerOK(v) == TRUE

(* A PositiveIntegerField column carries the CHECK (col >= 0) constraint.  *)
PositiveIntegerOK(v) == v >= 0

BundleExpired(b, t) == b.expiry_date < t

can_use_exam(b, t) ==
  IF ~b.is_active THEN FALSE
  ELSE IF BundleExpired(b, t) THEN FALSE
  ELSE IF is_unlimited_exams(b.def) THEN TRUE
  ELSE b.exams_remaining > 0

can_use_search(b, t) ==
  IF ~b.is_active THEN FALSE
  ELSE IF BundleExpired(b, t) THEN FALSE
  ELSE IF is_unlimited_search(b.def) THEN TRUE
  ELSE b.search_remaining > 0

(* _reset_daily_chat_if_needed is reached only from can_use_chat, for an   *)
(* active unexpired bundle whose definition has a daily limit.             *)
NeedsLazyReset(b, t) ==
  /\ b.is_active
  /\ ~BundleExpired(b, t)
  /\ Catalog[b.def].daily_chat_limit > 0
  /\ (t - b.last_chat_reset) \div HoursPerDay >= 1

(* The in-memory instance after _reset_daily_chat_if_needed. *)
AfterLazyReset(b, t) ==
  IF NeedsLazyReset(b, t)
  THEN [b EXCEPT !.daily_chats_used = 0, !.last_chat_reset = t]
  ELSE b

(* can_use_chat evaluated on the instance after the lazy reset. *)
can_use_chat(b, t) ==
  LET r == AfterLazyReset(b, t) IN
  IF ~b.is_active THEN FALSE
  ELSE IF BundleExpired(b, t) THEN FALSE
  ELSE IF Catalog[b.def].daily_chat_limit > 0
          /\ r.daily_chats_used >= Catalog[b.def].daily_chat_limit THEN FALSE
  ELSE IF is_unlimited_chats(b.def) THEN TRUE
  ELSE r.chats_remaining > 0

(* ---------------------------- request state ---------------------------- *)
NoOrder == [user |-> "u1", def |-> "basic", order_amount |-> 0, status |-> "none",
            reference_number |-> "", verified_amount |-> Null, expires_at |-> 0,
            resulting_bundle |-> 0]

(* A request process: pc is its position in the call it runs, the other   *)
(* fields are the arguments and locals of that call; stamp is the local    *)
(* 'now' of _reset_daily_chat_if_needed; held are the row locks its open   *)
(* transaction has taken and plan the rows a maintenance job writes, in    *)
(* the order in which it writes them.                                      *)
IdleProc == [pc |-> "idle", call |-> "none", user |-> "none", rtype |-> "none", qty |-> 0,
             bid |-> 0, seen |-> Null, out |-> "none", oid |-> 0, def |-> "none", ref |-> "",
             ord |-> NoOrder, stamp |-> Null, held |-> {}, plan |-> <<>>]

(* What a returning call leaves in ret: the call, its arguments, the       *)
(* bundle it resolved, the remaining count its checks read, its result.    *)
(* A step in which no call returns leaves NoReturn.                        *)
Return(pr, res, deficit) ==
  [call |-> pr.call, user |-> pr.user, rtype |-> pr.rtype, qty |-> pr.qty, bid |-> pr.bid,
   seen |-> pr.seen, oid |-> pr.oid, def |-> pr.def, ref |-> pr.ref, deficit |-> deficit,
   res |-> res]

NoReturn == Return(IdleProc, "none", Null)

InFlight == Cardinality({p \in Procs : proc[p].pc # "idle"})

(* A new request is served by the first process that runs none. *)
ProcOrder == <<"p1", "p2">>

Free(p) ==
  \E i \in 1..Len(ProcOrder) :
    /\ ProcOrder[i] = p
    /\ proc[p].pc = "idle"
    /\ \A j \in 1..(i - 1) : proc[ProcOrder[j]].pc # "idle"

(* ---------------------------- BundleService ---------------------------- *)
(* A lookup by the bundles' own flag instead of the profile's pointer: the *)
(* oldest bundle of the user that is flagged active and unexpired.         *)
OldestFlaggedBundle(u) ==
  LET S == {b \in 1..Len(bundles) : /\ bundles[b].user = u /\ bundles[b].is_active
                                     /\ ~BundleExpired(bundles[b], now)}
  IN IF S = {} THEN 0 ELSE CHOOSE b \in S : \A c \in S : b <= c

(* get_active_bundle: the bundle profile.active_bundle names, when it is   *)
(* flagged active and unexpired.                                           *)
get_active_bundle(u) ==
  IF active[u] # 0 /\ bundles[active[u]].is_active /\ ~BundleExpired(bundles[active[u]], now)
  THEN active[u] ELSE 0

(* The checks shared by check_resource_access and consume_resource, on the *)
(* instance read by get_active_bundle.                                     *)
AccessCheck(b, rtype, t) ==
  CASE rtype = "exam" -> IF can_use_exam(b, t) THEN "pass" ELSE "exhausted"
    [] rtype = "chat" -> IF can_use_chat(b, t) THEN "pass" ELSE "exhausted"
    [] rtype = "search" -> IF can_use_search(b, t) THEN "pass" ELSE "exhausted"
    [] rtype = "road_sign" ->
         IF Catalog[b.def].has_unlimited_road_sign_quiz THEN "ok" ELSE "not_included"
    [] OTHER -> "invalid"

(* The remaining count of the requested kind (Null when unmetered). *)
Remaining(b, rtype) ==
  CASE rtype = "exam" -> IF is_unlimited_exams(b.def) THEN Null ELSE b.exams_remaining
    [] rtype = "chat" -> IF is_unlimited_chats(b.def) THEN Null ELSE b.chats_remaining
    [] rtype = "search" -> IF is_unlimited_search(b.def) THEN Null ELSE b.search_remaining
    [] OTHER -> Null

(* Outcome of consume_resource's checks before the atomic block. *)
PreCheck(b, rtype, qty, t) ==
  LET a == AccessCheck(b, rtype, t) IN
  IF a # "pass" THEN a
  ELSE IF Remaining(b, rtype) # Null /\ Remaining(b, rtype) < qty THEN "insufficient"
  ELSE "pass"

(* An atomic block whose F() updates are lost. *)
NotDecremented(b, rtype, qty) == b

(* The row after the F() updates of the atomic block. *)
Decremented(b, rtype, qty) ==
  CASE rtype = "exam" ->
         IF ~is_unlimited_exams(b.def)
         THEN [b EXCEPT !.exams_remaining = @ - qty] ELSE b
    [] rtype = "chat" ->
         LET c == IF ~is_unlimited_chats(b.def)
                  THEN [b EXCEPT !.chats_remaining = @ - qty] ELSE b
         IN [c EXCEPT !.total_chats_consumed = @ + qty, !.daily_chats_used = @ + qty]
    [] rtype = "search" ->
         IF ~is_unlimited_search(b.def)
         THEN [b EXCEPT !.search_remaining = @ - qty] ELSE b
    [] OTHER -> b

CountersOK(b) ==
  /\ PositiveIntegerOK(b.exams_remaining)
  /\ PositiveIntegerOK(b.chats_remaining)
  /\ PositiveIntegerOK(b.search_remaining)
  /\ PositiveIntegerOK(b.total_chats_consumed)
  /\ PositiveIntegerOK(b.daily_chats_used)

Snapshot(b) == <<b.exams_remaining, b.chats_remaining, b.search_remaining>>

(* A row that records the magnitude of the quantity, without its sign. *)
TxRowUnsigned(bid, type, rtype, qty, before, after) ==
  [bundle |-> bid, type |-> type, rtype |-> rtype,
   quantity |-> IF qty < 0 THEN -qty ELSE qty,
   before |-> before, after |-> after]

TxRow(bid, type, rtype, qty, before, after) ==
  [bundle |-> bid, type |-> type, rtype |-> rtype, quantity |-> qty,
   before |-> before, after |-> after]

NullSnapshot == <<Null, Null, Null>>

(* After the checks gave outcome out: consume_resource goes on to its     *)
(* atomic block when they passed; every other case returns.                *)
AfterChecks(p, pr, out) ==
  IF pr.call = "consume" /\ out = "pass"
  THEN /\ proc' = [proc EXCEPT ![p] = [pr EXCEPT !.pc = "cr_checked", !.out = out]]
       /\ ret' = NoReturn
  ELSE /\ proc' = [proc EXCEPT ![p] = IdleProc]
       /\ ret' = Return(pr, IF out = "pass" THEN "ok" ELSE out, Null)

(* Lines 53-84 of consume_resource (call = "consume") and                  *)
(* check_resource_access (call = "check"): resolve the active bundle and   *)
(* run the checks on the instance just read.  When the chat check finds    *)
(* the daily counter a day old, the process goes on to write the reset.    *)
StartChecks(p, call, u, rtype, qty) ==
  /\ Free(p)
  /\ Len(ledger) + InFlight < MaxLedger
  /\ LET bid == get_active_bundle(u)
         pr0 == [IdleProc EXCEPT !.call = call, !.user = u, !.rtype = rtype, !.qty = qty]
     IN
     IF bid = 0
     THEN /\ proc' = [proc EXCEPT ![p] = IdleProc]
          /\ ret' = Return(pr0, "no_bundle", Null)
     ELSE LET b == bundles[bid]
              out == IF call = "consume" THEN PreCheck(b, rtype, qty, now)
                     ELSE AccessCheck(b, rtype, now)
              pr == [pr0 EXCEPT !.bid = bid, !.seen = Remaining(b, rtype)]
          IN IF rtype = "chat" /\ NeedsLazyReset(b, now)
             THEN /\ proc' = [proc EXCEPT ![p] = [pr EXCEPT !.pc = "lazy_reset", !.out = out,
                                                            !.stamp = now]]
                  /\ ret' = NoReturn
             ELSE AfterChecks(p, pr, out)
  /\ UNCHANGED <<now, dbVars>>

ConsumeCheck(p, u, rtype, qty) == StartChecks(p, "consume", u, rtype, qty)

CheckResourceAccess(p, u, rtype) == StartChecks(p, "check", u, rtype, 1)

(* _reset_daily_chat_if_needed, lines 1056-1058: the UPDATE of the two     *)
(* daily fields decided on the instance read earlier, in no transaction;   *)
(* the time written is the one the function read before its test.          *)
LazyResetWrite(p) ==
  /\ proc[p].pc = "lazy_reset"
  /\ bundles' = [bundles EXCEPT ![proc[p].bid].daily_chats_used = 0,
                               ![proc[p].bid].last_chat_reset = proc[p].stamp]
  /\ AfterChecks(p, [proc[p] EXCEPT !.stamp = Null], proc[p].out)
  /\ UNCHANGED <<now, activeDefs, active, ledger, orders, suggestions, purchases>>

(* consume_resource, lines 88-146: the atomic block.  It holds the row     *)
(* lock from select_for_update to the commit and nothing reads its         *)
(* uncommitted writes, so it is one step: read the balances, apply the     *)
(* F() updates, append the consume row.  A violated column constraint      *)
(* rolls the block back and is reported as an internal error.              *)
ConsumeCommit(p) ==
  /\ proc[p].pc = "cr_checked"
  /\ LET bid == proc[p].bid
         nb == Decremented(bundles[bid], proc[p].rtype, proc[p].qty)
     IN IF CountersOK(nb)
        THEN /\ bundles' = [bundles EXCEPT ![bid] = nb]
             /\ ledger' = Append(ledger, TxRow(bid, "consume", proc[p].rtype, -proc[p].qty,
                                               Snapshot(bundles[bid]), Snapshot(nb)))
             /\ ret' = Return(proc[p], "ok", Null)
        ELSE /\ ret' = Return(proc[p], "internal", Null)
             /\ UNCHANGED <<bundles, ledger>>
  /\ proc' = [proc EXCEPT ![p] = IdleProc]
  /\ UNCHANGED <<now, activeDefs, active, orders, suggestions, purchases>>

(* --------------------------- maintenance jobs -------------------------- *)
(* A day boundary that lies ahead of every timestamp written so far. *)
NextHour(t) == t + 1

(* reset_daily_chats, line 277: now.replace(hour=0, minute=0, ...). *)
Midnight(t) == t - (t % HoursPerDay)

BundleIds == 1..Len(bundles)

RECURSIVE SeqOfSet(_)
(* The rows of a queryset ordered by '-purchase_date': newest first. *)
SeqOfSet(S) ==
  IF S = {} THEN <<>>
  ELSE LET m == CHOOSE x \in S : \A y \in S : y <= x
       IN <<m>> \o SeqOfSet(S \ {m})

RECURSIVE RowsFor(_, _, _)
RowsFor(ids, type, rtype) ==
  IF ids = <<>> THEN <<>>
  ELSE <<TxRow(Head(ids), type, rtype, 0, NullSnapshot, NullSnapshot)>>
       \o RowsFor(Tail(ids), type, rtype)

(* reset_daily_chats: one UPDATE over the active bundles whose last reset  *)
(* predates today's midnight, then one reset row for every bundle that     *)
(* carries the timestamp this call has just written.                       *)
ResetSet == {b \in BundleIds : bundles[b].is_active
                                /\ bundles[b].last_chat_reset < Midnight(now)}

ResetDailyChats ==
  /\ Len(ledger) + InFlight + Cardinality(ResetSet) <= MaxLedger
  /\ bundles' = [b \in BundleIds |->
                   IF b \in ResetSet
                   THEN [bundles[b] EXCEPT !.daily_chats_used = 0, !.last_chat_reset = now]
                   ELSE bundles[b]]
  /\ ledger' = ledger \o RowsFor(SeqOfSet(ResetSet), "reset", "chat")
  /\ ret' = Return([IdleProc EXCEPT !.call = "reset_daily_chats",
                                    !.qty = Cardinality(ResetSet)], "ok", Null)
  /\ UNCHANGED <<now, activeDefs, active, orders, suggestions, purchases, proc>>

(* A sweep that takes every bundle flagged active, whatever its expiry. *)
EveryActiveBundle == {b \in BundleIds : bundles[b].is_active}

(* expire_bundles: deactivate every active bundle past its expiry, append  *)
(* an expiry row, clear the owner's pointer when it names the bundle.      *)
ExpireSet == {b \in BundleIds : bundles[b].is_active /\ bundles[b].expiry_date < now}

(* An expiry job that deactivates and logs but leaves the pointers alone. *)
ExpireWithoutUnlink ==
  /\ Len(ledger) + InFlight + Cardinality(ExpireSet) <= MaxLedger
  /\ bundles' = [b \in BundleIds |->
                   IF b \in ExpireSet THEN [bundles[b] EXCEPT !.is_active = FALSE]
                   ELSE bundles[b]]
  /\ ledger' = ledger \o RowsFor(SeqOfSet(ExpireSet), "expiry", "none")
  /\ ret' = Return([IdleProc EXCEPT !.call = "expire_bundles",
                                    !.qty = Cardinality(ExpireSet)], "ok", Null)
  /\ UNCHANGED <<now, activeDefs, active, orders, suggestions, purchases, proc>>

ExpireBundles ==
  /\ Len(ledger) + InFlight + Cardinality(ExpireSet) <= MaxLedger
  /\ bundles' = [b \in BundleIds |->
                   IF b \in ExpireSet
                   THEN [bundles[b] EXCEPT !.is_active = FALSE]
                   ELSE bundles[b]]
  /\ ledger' = ledger \o RowsFor(SeqOfSet(ExpireSet), "expiry", "none")
  /\ active' = [u \in Users |-> IF active[u] \in ExpireSet THEN 0 ELSE active[u]]
  /\ ret' = Return([IdleProc EXCEPT !.call = "expire_bundles",
                                    !.qty = Cardinality(ExpireSet)], "ok", Null)
  /\ UNCHANGED <<now, activeDefs, orders, suggestions, purchases, proc>>

(* The clock. *)
Tick(step) ==
  /\ now + step <= MaxTime
  /\ now' = now + step
  /\ ret' = NoReturn
  /\ UNCHANGED <<dbVars, proc>>

(* ------------------------- UserBundle creation ------------------------- *)
(* Model.__init__: every field not passed takes its default; the primary   *)
(* key is a UUIDField(default=uuid.uuid4), so the instance has its key     *)
(* before it is saved.                                                     *)
ModelInit(u, d, expiry, t) ==
  [pk_set |-> TRUE, user |-> u, def |-> d, expiry_date |-> expiry, is_active |-> TRUE,
   exams_remaining |-> 0, chats_remaining |-> 0, search_remaining |-> 0,
   total_chats_consumed |-> 0, daily_chats_used |-> 0, last_chat_reset |-> t]

(* UserBundle.save: the balances are taken from the definition only when   *)
(* the instance has no primary key.                                        *)
UserBundleSave(inst, t) ==
  IF ~inst.pk_set
  THEN [inst EXCEPT !.expiry_date = t + Catalog[inst.def].validity_days * HoursPerDay,
                    !.exams_remaining = Catalog[inst.def].exam_quota,
                    !.chats_remaining = Catalog[inst.def].total_chat_quota,
                    !.search_remaining = Catalog[inst.def].search_quota,
                    !.last_chat_reset = t]
  ELSE inst

(* The stored row: the instance without the in-memory key marker. *)
Row(inst) ==
  [user |-> inst.user, def |-> inst.def, expiry_date |-> inst.expiry_date,
   is_active |-> inst.is_active, exams_remaining |-> inst.exams_remaining,
   chats_remaining |-> inst.chats_remaining, search_remaining |-> inst.search_remaining,
   total_chats_consumed |-> inst.total_chats_consumed,
   daily_chats_used |-> inst.daily_chats_used, last_chat_reset |-> inst.last_chat_reset]

(* UserBundle.objects.create(user, bundle_definition, expiry_date) *)
UserBundleCreate(u, d, expiry, t) == Row(UserBundleSave(ModelInit(u, d, expiry, t), t))

(* --------------------------- PaymentVerifier --------------------------- *)
(* A verifier that confirms every reference. *)
AlwaysConfirmed(ref) == [success |-> TRUE, amount |-> MockAmount]

(* verify_payment builds PaymentVerifier(mock_mode=True): a reference that *)
(* starts with TEST is confirmed with the fixed amount, any other fails.   *)
MockVerify(ref) ==
  IF ref = "TEST1" THEN [success |-> TRUE, amount |-> MockAmount]
  ELSE [success |-> FALSE, amount |-> Null]

(* ------------------------- get_budget_suggestions ---------------------- *)
RECURSIVE ByPriceDesc(_)
ByPriceDesc(S) ==
  IF S = {} THEN <<>>
  ELSE LET m == CHOOSE x \in S : \A y \in S : Catalog[y].price_etb <= Catalog[x].price_etb
       IN <<m>> \o ByPriceDesc(S \ {m})

Affordable(budget) == {d \in activeDefs : Catalog[d].price_etb <= budget}

(* score = 0.4 * quotas / price + bonuses, kept as the fraction num / den  *)
(* with den = 10 * price.                                                  *)
BudgetFit(d, budget) ==
  /\ 5 * Catalog[d].price_etb >= 4 * budget
  /\ Catalog[d].price_etb <= budget

Scored(d, budget, current) ==
  LET c == Catalog[d]
      bonus == (IF d = current THEN 3 ELSE 0)
               + (IF BudgetFit(d, budget) THEN 2 ELSE 0)
               + (IF c.order >= PopularOrder THEN 1 ELSE 0)
  IN [bundle |-> d,
      reason |-> IF BudgetFit(d, budget) THEN "good_utilization" ELSE "within_budget",
      num |-> 4 * (c.exam_quota + c.total_chat_quota + c.search_quota) + c.price_etb * bonus,
      den |-> 10 * c.price_etb,
      deficit |-> Null]

ScoreLess(a, b) == a.num * b.den < b.num * a.den

RECURSIVE InsertByScore(_, _)
(* list.sort(key=score, reverse=True) is stable: an item goes after every  *)
(* item whose score is not lower.                                          *)
InsertByScore(sorted, x) ==
  IF sorted = <<>> THEN <<x>>
  ELSE IF ScoreLess(Head(sorted), x) THEN <<x>> \o sorted
  ELSE <<Head(sorted)>> \o InsertByScore(Tail(sorted), x)

RECURSIVE SortByScore(_, _)
SortByScore(items, acc) ==
  IF items = <<>> THEN acc
  ELSE SortByScore(Tail(items), InsertByScore(acc, Head(items)))

RECURSIVE ScoreAll(_, _, _)
ScoreAll(ds, budget, current) ==
  IF ds = <<>> THEN <<>>
  ELSE <<Scored(Head(ds), budget, current)>> \o ScoreAll(Tail(ds), budget, current)

FirstN(s, n) == IF Len(s) <= n THEN s ELSE SubSeq(s, 1, n)

(* The result: raised is TRUE when the scoring divides by a zero price.    *)
get_budget_suggestions(budget, current) ==
  LET aff == Affordable(budget) IN
  IF aff = {}
  THEN IF activeDefs = {} THEN [raised |-> FALSE, items |-> <<>>]
       ELSE LET cheapest == CHOOSE x \in activeDefs :
                              \A y \in activeDefs : Catalog[x].price_etb <= Catalog[y].price_etb
            IN [raised |-> FALSE,
                items |-> <<[bundle |-> cheapest, reason |-> "cheapest", num |-> 1, den |-> 2,
                             deficit |-> Catalog[cheapest].price_etb - budget]>>]
  ELSE IF budget = 0 \/ \E d \in aff : Catalog[d].price_etb = 0
       THEN [raised |-> TRUE, items |-> <<>>]
       ELSE [raised |-> FALSE,
             items |-> FirstN(SortByScore(ScoreAll(ByPriceDesc(aff), budget, current), <<>>),
                              TopSuggestions)]

(* ----------------------- can_upgrade_existing_bundle ------------------- *)
(* A filter whose lower price bound is inclusive. *)
UpgradeFromCurrent(current, additional) ==
  {d \in activeDefs : /\ Catalog[d].price_etb <= current + additional
                      /\ Catalog[d].price_etb >= current}

(* Lines 690-694: the active definitions priced above the current one and  *)
(* within the current price plus the additional amount.                    *)
UpgradeBundles(current, additional) ==
  {d \in activeDefs : /\ Catalog[d].price_etb <= current + additional
                      /\ Catalog[d].price_etb > current}

(* The result is False without a pointer or with an expired bundle.  With  *)
(* upgrade options it is the dictionary (a non-empty dict, truthy);        *)
(* without any, building 'additional_needed' reads price_etb of            *)
(* upgrade_bundles.first(), which is None, and the bare except returns     *)
(* False.                                                                  *)
can_upgrade_existing_bundle(u, additional) ==
  IF active[u] = 0 \/ BundleExpired(bundles[active[u]], now) THEN "False"
  ELSE IF UpgradeBundles(Catalog[bundles[active[u]].def].price_etb, additional) # {}
       THEN "dict"
       ELSE "False"

(* -------------------------- BundleOrderService ------------------------- *)
OrderIds == 1..Len(orders)

(* An order whose deadline never passes. *)
OrderNeverExpired(ord, t) == FALSE

(* BundleOrder.is_expired *)
OrderIsExpired(ord, t) == ord.expires_at < t

(* create_order *)
CreateOrder(u, d) ==
  /\ Len(orders) < MaxOrders
  /\ d \in activeDefs
  /\ orders' = Append(orders,
       [user |-> u, def |-> d, order_amount |-> Catalog[d].price_etb, status |-> "pending",
        reference_number |-> "", verified_amount |-> Null,
        expires_at |-> now + HoursPerDay, resulting_bundle |-> 0])
  /\ ret' = NoReturn
  /\ UNCHANGED <<now, activeDefs, bundles, active, ledger, suggestions, purchases, proc>>

(* A receipt table without the one-to-one constraint on the order. *)
ReceiptUnconstrained(o) == FALSE

HasReceipt(o) == \E r \in purchases : r.order = o

(* An atomic block of complete_order that writes no receipt. *)
CompleteCommitNoReceipt(ords, o) ==
  LET ord == ords[o]
      d == ord.def
      nb == UserBundleCreate(ord.user, d, now + Catalog[d].validity_days * HoursPerDay, now)
      id == Len(bundles) + 1
  IN /\ bundles' = Append(bundles, nb)
     /\ orders' = [ords EXCEPT ![o].resulting_bundle = id, ![o].status = "completed"]
     /\ active' = [active EXCEPT ![ord.user] = id]
     /\ purchases' = purchases
     /\ ledger' = Append(ledger, TxRow(id, "purchase", "none", Catalog[d].exam_quota,
                                       <<0, 0, 0>>, Snapshot(nb)))

(* The atomic block of complete_order for order o of the order table ords; *)
(* the caller has established that it commits.                             *)
CompleteCommit(ords, o) ==
  LET ord == ords[o]
      d == ord.def
      nb == UserBundleCreate(ord.user, d, now + Catalog[d].validity_days * HoursPerDay, now)
      id == Len(bundles) + 1
  IN /\ bundles' = Append(bundles, nb)
     /\ orders' = [ords EXCEPT ![o].resulting_bundle = id, ![o].status = "completed"]
     /\ active' = [active EXCEPT ![ord.user] = id]
     /\ purchases' = purchases \cup {[order |-> o, def |-> d,
                                      amount_paid |-> ord.verified_amount,
                                      user_bundle |-> id]}
     /\ ledger' = Append(ledger, TxRow(id, "purchase", "none", Catalog[d].exam_quota,
                                       <<0, 0, 0>>, Snapshot(nb)))

(* verify_payment, lines 433-460: read the pending order, expire it when   *)
(* past its deadline, call the verifier.                                   *)
VerifyRead(p, o, ref) ==
  /\ Free(p)
  /\ o \in OrderIds
  /\ Len(ledger) + InFlight < MaxLedger
  /\ LET pr == [IdleProc EXCEPT !.call = "verify", !.oid = o, !.ref = ref] IN
     IF orders[o].status # "pending"
     THEN /\ ret' = Return(pr, "not_found", Null)
          /\ UNCHANGED <<orders, proc>>
     ELSE IF OrderIsExpired(orders[o], now)
     THEN /\ orders' = [orders EXCEPT ![o].status = "expired"]
          /\ ret' = Return(pr, "expired", Null)
          /\ UNCHANGED proc
     ELSE IF ~MockVerify(ref).success
     THEN /\ ret' = Return(pr, "verification_failed", Null)
          /\ UNCHANGED <<orders, proc>>
     ELSE /\ proc' = [proc EXCEPT ![p] = [pr EXCEPT !.pc = "vp_read", !.ord = orders[o]]]
          /\ UNCHANGED orders
          /\ ret' = NoReturn
  /\ UNCHANGED <<now, activeDefs, bundles, active, ledger, suggestions, purchases>>

(* verify_payment, lines 462-470 and 485-486: order.save() writes the      *)
(* whole in-memory order with the verified amount and the new status.      *)
VerifySave(p) ==
  /\ proc[p].pc = "vp_read"
  /\ LET amount == MockVerify(proc[p].ref).amount
         enough == amount >= proc[p].ord.order_amount
         saved == [proc[p].ord EXCEPT
                     !.reference_number = proc[p].ref,
                     !.verified_amount = amount,
                     !.status = IF enough THEN "payment_verified" ELSE "insufficient_funds"]
     IN /\ orders' = [orders EXCEPT ![proc[p].oid] = saved]
        /\ proc' = [proc EXCEPT ![p].pc = IF enough THEN "vp_complete" ELSE "vp_suggest",
                                ![p].ord = saved]
  /\ ret' = NoReturn
  /\ UNCHANGED <<now, activeDefs, bundles, active, ledger, suggestions, purchases>>

(* verify_payment, lines 472-482, with complete_order.  complete_order     *)
(* reads the order as PaymentVerified and runs its atomic block.  When the *)
(* order is no longer PaymentVerified the read raises DoesNotExist and     *)
(* verify_payment reports not_found.  A second receipt for one order       *)
(* violates the one-to-one constraint: the block is rolled back and        *)
(* verify_payment reports an internal error; that is also the outcome when *)
(* the read came before, and the block after, another call's completion.   *)
VerifyComplete(p) ==
  /\ proc[p].pc = "vp_complete"
  /\ LET o == proc[p].oid IN
     IF orders[o].status = "payment_verified" /\ ~HasReceipt(o)
     THEN /\ CompleteCommit(orders, o)
          /\ ret' = Return([proc[p] EXCEPT !.bid = Len(bundles) + 1], "completed", Null)
     ELSE /\ \E r \in (IF orders[o].status = "payment_verified" THEN {} ELSE {"not_found"})
                       \cup (IF HasReceipt(o) THEN {"error"} ELSE {}) :
               ret' = Return(proc[p], r, Null)
          /\ UNCHANGED <<bundles, orders, active, purchases, ledger>>
  /\ proc' = [proc EXCEPT ![p] = IdleProc]
  /\ UNCHANGED <<now, activeDefs, suggestions>>

RECURSIVE Persisted(_, _, _)
(* The suggestion rows created one by one until a duplicate (order,        *)
(* bundle_definition) pair violates unique_together.                       *)
Persisted(items, o, existing) ==
  IF items = <<>> THEN [rows |-> existing, failed |-> FALSE]
  ELSE IF \E s \in existing : s.order = o /\ s.def = Head(items).bundle
  THEN [rows |-> existing, failed |-> TRUE]
  ELSE Persisted(Tail(items), o,
                 existing \cup {[order |-> o, def |-> Head(items).bundle,
                                 reason |-> Head(items).reason,
                                 num |-> Head(items).num, den |-> Head(items).den]})

(* verify_payment, lines 488-515: compute and persist the suggestions.     *)
VerifySuggest(p) ==
  /\ proc[p].pc = "vp_suggest"
  /\ LET o == proc[p].oid
         amount == proc[p].ord.verified_amount
         sg == get_budget_suggestions(amount, proc[p].ord.def)
         done == Persisted(sg.items, o, suggestions)
     IN IF sg.raised
        THEN /\ ret' = Return(proc[p], "error", Null)
             /\ UNCHANGED suggestions
        ELSE /\ suggestions' = done.rows
             /\ ret' = IF done.failed THEN Return(proc[p], "error", Null)
                       ELSE Return(proc[p], "insufficient_funds",
                                   proc[p].ord.order_amount - amount)
  /\ proc' = [proc EXCEPT ![p] = IdleProc]
  /\ UNCHANGED <<now, activeDefs, bundles, active, ledger, orders, purchases>>

(* A lookup that finds a suggestion row whatever the order and definition. *)
AnySuggestionExists(o, d) == TRUE

(* accept_suggestion, lines 716-719: the suggestion row of the order for   *)
(* the definition.                                                         *)
SuggestionExists(o, d) == \E s \in suggestions : s.order = o /\ s.def = d

(* accept_suggestion: the order, the definition and the suggestion row are *)
(* looked up, with no check of the order's status; the order is then       *)
(* re-pointed, marked PaymentVerified and completed in one transaction.    *)
(* A missing row gives the invalid result; a second receipt for the order  *)
(* rolls the transaction back and gives an internal error.                 *)
AcceptSuggestion(o, d) ==
  /\ Len(ledger) + InFlight < MaxLedger
  /\ LET pr == [IdleProc EXCEPT !.call = "accept", !.oid = o, !.def = d] IN
     IF o \notin OrderIds \/ ~SuggestionExists(o, d)
     THEN /\ ret' = Return(pr, "invalid", Null)
          /\ UNCHANGED <<bundles, orders, active, purchases, ledger>>
     ELSE IF HasReceipt(o)
     THEN /\ ret' = Return(pr, "error", Null)
          /\ UNCHANGED <<bundles, orders, active, purchases, ledger>>
     ELSE /\ CompleteCommit([orders EXCEPT ![o].def = d,
                                           ![o].order_amount = Catalog[d].price_etb,
                                           ![o].status = "payment_verified"], o)
          /\ ret' = Return([pr EXCEPT !.bid = Len(bundles) + 1], "ok", Null)
  /\ UNCHANGED <<now, activeDefs, suggestions, proc>>

(* A status filter that lets every order through. *)
EveryStatus == {"pending", "payment_verified", "insufficient_funds", "completed",
                "cancelled", "expired"}

(* cancel_order, lines 748-751: the statuses the order query accepts. *)
Cancellable == {"pending", "insufficient_funds"}

(* cancel_order *)
CancelOrder(o) ==
  /\ LET pr == [IdleProc EXCEPT !.call = "cancel", !.oid = o] IN
     IF o \in OrderIds /\ orders[o].status \in Cancellable
     THEN /\ orders' = [orders EXCEPT ![o].status = "cancelled"]
          /\ ret' = Return(pr, "ok", Null)
     ELSE /\ ret' = Return(pr, "not_found", Null)
          /\ UNCHANGED orders
  /\ UNCHANGED <<now, activeDefs, bundles, active, ledger, suggestions, purchases, proc>>

(* ------------------------------ purchase_bundle ------------------------ *)
(* A column declared without null=True rejects a row that leaves it unset. *)
NotNullOK(v) == v # Null

(* purchase_bundle with auto_complete: the definition is looked up among   *)
(* the active ones; the atomic block creates the BundlePurchase row        *)
(* without an order (BundlePurchase.order is a one-to-one key that is not  *)
(* nullable) and create_user_bundle creates the UserBundle without an      *)
(* expiry date (not nullable, and UserBundle.save does not fill it in);    *)
(* a rejected row rolls the block back and the call reports an internal    *)
(* error.                                                                  *)
PurchaseBundle(u, d) ==
  /\ Len(ledger) + InFlight < MaxLedger
  /\ LET pr == [IdleProc EXCEPT !.call = "purchase_bundle", !.user = u, !.def = d]
         id == Len(bundles) + 1
         nb == UserBundleCreate(u, d, Null, now)
         receipt == [order |-> Null, def |-> d, amount_paid |-> Catalog[d].price_etb,
                     user_bundle |-> id]
     IN IF d \notin activeDefs
        THEN /\ ret' = Return(pr, "not_found", Null)
             /\ UNCHANGED <<bundles, active, purchases, ledger>>
        ELSE IF ~NotNullOK(receipt.order) \/ ~NotNullOK(nb.expiry_date)
        THEN /\ ret' = Return(pr, "internal", Null)
             /\ UNCHANGED <<bundles, active, purchases, ledger>>
        ELSE /\ purchases' = purchases \cup {receipt}
             /\ bundles' = Append(bundles, nb)
             /\ active' = [active EXCEPT ![u] = id]
             /\ ledger' = Append(ledger, TxRow(id, "purchase", "none", Catalog[d].exam_quota,
                                               <<0, 0, 0>>, Snapshot(nb)))
             /\ ret' = Return([pr EXCEPT !.bid = id], "ok", Null)
  /\ UNCHANGED <<now, activeDefs, orders, suggestions, proc>>

(* ------------------------------ row locks ------------------------------ *)
(* The rows the transactions lock: a row of UserBundle, UserProfile or     *)
(* BundleOrder; profiles are numbered in the order of Users.               *)
UserNumber(u) == IF u = "u1" THEN 1 ELSE 2

BundleRow(b) == [table |-> "bundle", id |-> b]

ProfileRow(u) == [table |-> "profile", id |-> UserNumber(u)]

OrderRow(o) == [table |-> "order", id |-> o]

(* The rows the transaction of process record pr locks, in the order of    *)
(* its statements: consume_resource locks its bundle (select_for_update);  *)
(* complete_order saves the order and then the owner's profile; a job      *)
(* writes the rows of its plan.                                            *)
LockPlan(pr) ==
  CASE pr.pc = "cr_checked" -> <<BundleRow(pr.bid)>>
    [] pr.pc = "vp_complete" -> <<OrderRow(pr.oid), ProfileRow(pr.ord.user)>>
    [] pr.pc = "job" -> pr.plan
    [] OTHER -> <<>>

HoldsAll(pr) == Cardinality(pr.held) = Len(LockPlan(pr))

NextLock(pr) == LockPlan(pr)[Cardinality(pr.held) + 1]

(* A row lock that is never granted. *)
LockNeverFree(p, row) == FALSE

(* A row lock is granted when no other open transaction holds the row. *)
LockFree(p, row) == \A q \in Procs \ {p} : row \notin proc[q].held

(* Process p waits for a row that process q holds. *)
WaitsFor(p, q) ==
  /\ p # q
  /\ ~HoldsAll(proc[p])
  /\ NextLock(proc[p]) \in proc[q].held

(* The statement of p that needs the next row of its transaction. *)
AcquireLock(p) ==
  /\ ~HoldsAll(proc[p])
  /\ LockFree(p, NextLock(proc[p]))
  /\ proc' = [proc EXCEPT ![p].held = @ \cup {NextLock(proc[p])}]
  /\ ret' = NoReturn
  /\ UNCHANGED <<now, dbVars>>

(* Two transactions wait for each other: the database ends the wait of one *)
(* of them with an error, the transaction is rolled back and the except    *)
(* clause of the function returns the failure.                             *)
DeadlockAbort(p) ==
  /\ \E q \in Procs : WaitsFor(p, q) /\ WaitsFor(q, p)
  /\ proc' = [proc EXCEPT ![p] = IdleProc]
  /\ ret' = Return(proc[p], "internal", Null)
  /\ UNCHANGED <<now, dbVars>>

RECURSIVE ScanOrder(_)
(* The rows of a table in storage order: oldest first. *)
ScanOrder(S) ==
  IF S = {} THEN <<>>
  ELSE LET m == CHOOSE x \in S : \A y \in S : x <= y
       IN <<m>> \o ScanOrder(S \ {m})

RECURSIVE ExpirePlan(_)
(* expire_bundles, lines 324-345: for every bundle of the queryset, save   *)
(* the bundle, then save the owner's profile when it points at the bundle. *)
ExpirePlan(ids) ==
  IF ids = <<>> THEN <<>>
  ELSE <<BundleRow(Head(ids))>>
       \o (IF active[bundles[Head(ids)].user] = Head(ids)
           THEN <<ProfileRow(bundles[Head(ids)].user)>> ELSE <<>>)
       \o ExpirePlan(Tail(ids))

RECURSIVE RowLocks(_)
(* The bundle rows of a sequence of bundle ids. *)
RowLocks(ids) ==
  IF ids = <<>> THEN <<>> ELSE <<BundleRow(Head(ids))>> \o RowLocks(Tail(ids))

RECURSIVE PendingRows(_)
(* The rows the calls under way in the first n processes are still to      *)
(* append to the log: one for each bundle of a job's plan, one for any     *)
(* other call.                                                             *)
PendingRows(n) ==
  IF n = 0 THEN 0
  ELSE LET pr == proc[ProcOrder[n]] IN
       PendingRows(n - 1)
       + (IF pr.pc = "job"
          THEN Cardinality({i \in 1..Len(pr.plan) : pr.plan[i].table = "bundle"})
          ELSE IF pr.pc = "idle" THEN 0 ELSE 1)

(* expire_bundles opens its transaction and reads the bundles to expire,   *)
(* in the model's default ordering (newest first).                         *)
BeginExpire(p) ==
  /\ Free(p)
  /\ Len(ledger) + PendingRows(Len(ProcOrder)) + Cardinality(ExpireSet) <= MaxLedger
  /\ proc' = [proc EXCEPT ![p] = [IdleProc EXCEPT !.pc = "job", !.call = "expire_bundles",
                                                  !.plan = ExpirePlan(SeqOfSet(ExpireSet))]]
  /\ ret' = NoReturn
  /\ UNCHANGED <<now, dbVars>>

(* reset_daily_chats opens its transaction; its UPDATE writes the rows     *)
(* that match the filter in storage order.                                 *)
BeginReset(p) ==
  /\ Free(p)
  /\ Len(ledger) + PendingRows(Len(ProcOrder)) + Cardinality(ResetSet) <= MaxLedger
  /\ proc' = [proc EXCEPT ![p] = [IdleProc EXCEPT !.pc = "job", !.call = "reset_daily_chats",
                                                  !.stamp = now,
                                                  !.plan = RowLocks(ScanOrder(ResetSet))]]
  /\ ret' = NoReturn
  /\ UNCHANGED <<now, dbVars>>

(* The commit of a job that holds every row of its plan. *)
JobCommit(p) ==
  /\ proc[p].pc = "job"
  /\ HoldsAll(proc[p])
  /\ LET S == {b \in BundleIds : BundleRow(b) \in proc[p].held} IN
     IF proc[p].call = "expire_bundles"
     THEN /\ bundles' = [b \in BundleIds |->
                          IF b \in S THEN [bundles[b] EXCEPT !.is_active = FALSE]
                          ELSE bundles[b]]
          /\ ledger' = ledger \o RowsFor(SeqOfSet(S), "expiry", "none")
          /\ active' = [u \in Users |->
                          IF ProfileRow(u) \in proc[p].held THEN 0 ELSE active[u]]
          /\ ret' = Return([proc[p] EXCEPT !.qty = Cardinality(S)], "ok", Null)
     ELSE LET due == {b \in S : bundles[b].is_active
                                /\ bundles[b].last_chat_reset < Midnight(proc[p].stamp)}
          IN /\ bundles' = [b \in BundleIds |->
                             IF b \in due
                             THEN [bundles[b] EXCEPT !.daily_chats_used = 0,
                                                     !.last_chat_reset = proc[p].stamp]
                             ELSE bundles[b]]
             /\ ledger' = ledger \o RowsFor(SeqOfSet(due), "reset", "chat")
             /\ active' = active
             /\ ret' = Return([proc[p] EXCEPT !.qty = Cardinality(due)], "ok", Null)
  /\ proc' = [proc EXCEPT ![p] = IdleProc]
  /\ UNCHANGED <<now, activeDefs, orders, suggestions, purchases>>

(* The atomic block of consume_resource once it holds its bundle row. *)
LockedConsumeCommit(p) == HoldsAll(proc[p]) /\ ConsumeCommit(p)

(* order.save() of verify_payment: one statement that needs the order row. *)
LockedVerifySave(p) == LockFree(p, OrderRow(proc[p].oid)) /\ VerifySave(p)

(* The atomic block of complete_order once it holds the order and profile. *)
LockedVerifyComplete(p) == HoldsAll(proc[p]) /\ VerifyComplete(p)

(* ------------------------------ behaviour ------------------------------ *)
(* A bundle bought at time 0 whose balances the administrator has set to   *)
(* the definition's quotas (UserBundleAdmin leaves them editable).         *)
Provisioned(u, d) ==
  [user |-> u, def |-> d, expiry_date |-> Catalog[d].validity_days * HoursPerDay,
   is_active |-> TRUE, exams_remaining |-> Catalog[d].exam_quota,
   chats_remaining |-> Catalog[d].total_chat_quota,
   search_remaining |-> Catalog[d].search_quota,
   total_chats_consumed |-> 0, daily_chats_used |-> 0, last_chat_reset |-> 0]

(* The ledger: users hold bundles, each with the purchase transaction its  *)
(* creation wrote; requests consume from them while the maintenance jobs   *)
(* run.                                                                    *)
Init ==
  /\ now = 0
  /\ activeDefs = {"basic", "unl", "pro"}
  /\ \E h \in Holdings :
       /\ bundles = [i \in 1..Len(h) |-> Provisioned(h[i][1], h[i][2])]
       /\ active = [u \in Users |->
                      IF \E i \in 1..Len(h) : h[i][1] = u
                      THEN CHOOSE i \in 1..Len(h) : h[i][1] = u ELSE 0]
       /\ ledger = [i \in 1..Len(h) |->
                      TxRow(i, "purchase", "none", Catalog[h[i][2]].exam_quota, <<0, 0, 0>>,
                            Snapshot(UserBundleCreate(h[i][1], h[i][2],
                                       Catalog[h[i][2]].validity_days * HoursPerDay, 0)))]
  /\ orders = <<>>
  /\ suggestions = {}
  /\ purchases = {}
  /\ proc = [p \in Procs |-> IdleProc]
  /\ ret = NoReturn

Next ==
  \/ \E p \in Procs, u \in Users, r \in ResourceTypes, q \in Quantities : ConsumeCheck(p, u, r, q)
  \/ \E p \in Procs, u \in Users, r \in ResourceTypes : CheckResourceAccess(p, u, r)
  \/ \E p \in Procs : LazyResetWrite(p)
  \/ \E p \in Procs : ConsumeCommit(p)
  \/ ResetDailyChats
  \/ ExpireBundles
  \/ Tick(HoursPerDay)

Spec == Init /\ [][Next]_vars

(* The order engine: no bundle exists yet; orders are created, verified,   *)
(* accepted and cancelled while bundles expire.                            *)
InitOrders ==
  /\ now = 0
  /\ activeDefs \in ActiveSets
  /\ bundles = <<>>
  /\ active = [u \in Users |-> 0]
  /\ ledger = <<>>
  /\ orders = <<>>
  /\ suggestions = {}
  /\ purchases = {}
  /\ proc = [p \in Procs |-> IdleProc]
  /\ ret = NoReturn

NextOrders ==
  \/ \E u \in Buyers, d \in DefIds : CreateOrder(u, d)
  \/ \E p \in Procs, o \in 1..MaxOrders, ref \in References : VerifyRead(p, o, ref)
  \/ \E p \in Procs : VerifySave(p)
  \/ \E p \in Procs : VerifyComplete(p)
  \/ \E p \in Procs : VerifySuggest(p)
  \/ \E o \in 1..MaxOrders, d \in activeDefs : AcceptSuggestion(o, d)
  \/ \E o \in 1..MaxOrders : CancelOrder(o)
  \/ ExpireBundles
  \/ Tick(HoursPerDay)

SpecOrders == InitOrders /\ [][NextOrders]_vars

(* Activation: a buyer who holds a bundle draws exams from it while an     *)
(* order of theirs is verified, completed or accepted.                     *)
InitActivation ==
  /\ now = 0
  /\ activeDefs = {"basic", "pro"}
  /\ bundles = <<Provisioned("u1", "basic")>>
  /\ active = [u \in Users |-> IF u = "u1" THEN 1 ELSE 0]
  /\ ledger = <<TxRow(1, "purchase", "none", Catalog["basic"].exam_quota, <<0, 0, 0>>,
                      Snapshot(UserBundleCreate("u1", "basic",
                                 Catalog["basic"].validity_days * HoursPerDay, 0)))>>
  /\ orders = <<>>
  /\ suggestions = {}
  /\ purchases = {}
  /\ proc = [p \in Procs |-> IdleProc]
  /\ ret = NoReturn

NextActivation ==
  \/ \E u \in Buyers, d \in DefIds : CreateOrder(u, d)
  \/ \E p \in Procs, o \in 1..MaxOrders : VerifyRead(p, o, "TEST1")
  \/ \E p \in Procs : VerifySave(p)
  \/ \E p \in Procs : VerifyComplete(p)
  \/ \E p \in Procs : VerifySuggest(p)
  \/ \E o \in 1..MaxOrders, d \in activeDefs : AcceptSuggestion(o, d)
  \/ \E p \in Procs, u \in Users, q \in Quantities : ConsumeCheck(p, u, "exam", q)
  \/ \E p \in Procs : ConsumeCommit(p)

SpecActivation == InitActivation /\ [][NextActivation]_vars

(* The daily counter: a buyer chats on a two-day bundle bought at midnight *)
(* while the reset job runs, the clock moving by half days.                *)
InitResets ==
  /\ now = 0
  /\ activeDefs = {"basic", "pro"}
  /\ bundles = <<Provisioned("u1", "pro")>>
  /\ active = [u \in Users |-> IF u = "u1" THEN 1 ELSE 0]
  /\ ledger = <<TxRow(1, "purchase", "none", Catalog["pro"].exam_quota, <<0, 0, 0>>,
                      Snapshot(UserBundleCreate("u1", "pro",
                                 Catalog["pro"].validity_days * HoursPerDay, 0)))>>
  /\ orders = <<>>
  /\ suggestions = {}
  /\ purchases = {}
  /\ proc = [p \in Procs |-> IdleProc]
  /\ ret = NoReturn

NextResets ==
  \/ \E p \in Procs, u \in Buyers, q \in Quantities : ConsumeCheck(p, u, "chat", q)
  \/ \E p \in Procs : LazyResetWrite(p)
  \/ \E p \in Procs : ConsumeCommit(p)
  \/ ResetDailyChats
  \/ Tick(HoursPerDay \div 2)

SpecResets == InitResets /\ [][NextResets]_vars

(* Suggestions: get_budget_suggestions applied to every catalogue state,   *)
(* budget and requested definition of the bounded input sets.              *)
Budgets == {0, 300, 450, 500, 800, 1000}

GetBudgetSuggestions(budget, current) ==
  /\ ret' = [call |-> "get_budget_suggestions", budget |-> budget, def |-> current,
             raised |-> get_budget_suggestions(budget, current).raised,
             items |-> get_budget_suggestions(budget, current).items]
  /\ UNCHANGED <<now, dbVars, proc>>

InitSuggestions ==
  /\ now = 0
  /\ activeDefs \in SUBSET DefIds
  /\ bundles = <<>>
  /\ active = [u \in Users |-> 0]
  /\ ledger = <<>>
  /\ orders = <<>>
  /\ suggestions = {}
  /\ purchases = {}
  /\ proc = [p \in Procs |-> IdleProc]
  /\ ret = NoReturn

NextSuggestions ==
  \E budget \in Budgets, current \in DefIds \cup {"none"} :
    GetBudgetSuggestions(budget, current)

SpecSuggestions == InitSuggestions /\ [][NextSuggestions]_vars

(* Expiry: either a buyer whose one-day bundle was superseded by a two-day *)
(* bundle, or two users with a one-day bundle each, draw exams while the   *)
(* expiry job runs.  The newest bundle of a user is the active one.        *)
ExpiryHoldings == {<<<<"u1", "basic">>, <<"u1", "pro">>>>,
                   <<<<"u1", "basic">>, <<"u2", "basic">>>>}

InitExpiry ==
  /\ now = 0
  /\ activeDefs = {"basic", "pro"}
  /\ \E h \in ExpiryHoldings :
       /\ bundles = [i \in 1..Len(h) |-> Provisioned(h[i][1], h[i][2])]
       /\ active = [u \in Users |->
                      LET own == {i \in 1..Len(h) : h[i][1] = u}
                      IN IF own = {} THEN 0 ELSE CHOOSE i \in own : \A j \in own : j <= i]
       /\ ledger = [i \in 1..Len(h) |->
                      TxRow(i, "purchase", "none", Catalog[h[i][2]].exam_quota, <<0, 0, 0>>,
                            Snapshot(UserBundleCreate(h[i][1], h[i][2],
                                       Catalog[h[i][2]].validity_days * HoursPerDay, 0)))]
  /\ orders = <<>>
  /\ suggestions = {}
  /\ purchases = {}
  /\ proc = [p \in Procs |-> IdleProc]
  /\ ret = NoReturn

NextExpiry ==
  \/ \E p \in Procs, u \in Users, q \in Quantities : ConsumeCheck(p, u, "exam", q)
  \/ \E p \in Procs : ConsumeCommit(p)
  \/ ExpireBundles
  \/ Tick(HoursPerDay)

SpecExpiry == InitExpiry /\ [][NextExpiry]_vars

(* Upgrades: can_upgrade_existing_bundle asked for users with and without  *)
(* a bundle, over several catalogues, while bundles expire.                *)
ExtraBudgets == {0, 100, 300, 500}

CanUpgradeExistingBundle(u, additional) ==
  /\ ret' = Return([IdleProc EXCEPT !.call = "can_upgrade", !.user = u, !.qty = additional],
                   can_upgrade_existing_bundle(u, additional), Null)
  /\ UNCHANGED <<now, dbVars, proc>>

InitUpgrade ==
  /\ now = 0
  /\ activeDefs \in ActiveSets
  /\ \E h \in ExpiryHoldings :
       /\ bundles = [i \in 1..Len(h) |-> Provisioned(h[i][1], h[i][2])]
       /\ active = [u \in Users |->
                      LET own == {i \in 1..Len(h) : h[i][1] = u}
                      IN IF own = {} THEN 0 ELSE CHOOSE i \in own : \A j \in own : j <= i]
       /\ ledger = [i \in 1..Len(h) |->
                      TxRow(i, "purchase", "none", Catalog[h[i][2]].exam_quota, <<0, 0, 0>>,
                            Snapshot(UserBundleCreate(h[i][1], h[i][2],
                                       Catalog[h[i][2]].validity_days * HoursPerDay, 0)))]
  /\ orders = <<>>
  /\ suggestions = {}
  /\ purchases = {}
  /\ proc = [p \in Procs |-> IdleProc]
  /\ ret = NoReturn

NextUpgrade ==
  \/ \E u \in Users, additional \in ExtraBudgets : CanUpgradeExistingBundle(u, additional)
  \/ ExpireBundles
  \/ Tick(HoursPerDay)

SpecUpgrade == InitUpgrade /\ [][NextUpgrade]_vars

(* Locking: two users hold a one-day bundle each that the administrator    *)
(* created a day ago (no purchase row); consumers, order completions and   *)
(* the two maintenance jobs run as transactions that take their row locks  *)
(* one statement at a time.  The buyer places one order.                   *)
InitLocks ==
  /\ now = HoursPerDay
  /\ activeDefs = {"basic", "pro"}
  /\ bundles = <<Provisioned("u1", "basic"), Provisioned("u2", "basic")>>
  /\ active = [u \in Users |-> UserNumber(u)]
  /\ ledger = <<>>
  /\ orders = <<>>
  /\ suggestions = {}
  /\ purchases = {}
  /\ proc = [p \in Procs |-> IdleProc]
  /\ ret = NoReturn

(* The steps process p takes once its call is under way. *)
ProcStep(p) ==
  \/ AcquireLock(p)
  \/ LockedConsumeCommit(p)
  \/ JobCommit(p)
  \/ DeadlockAbort(p)
  \/ LockedVerifySave(p)
  \/ LockedVerifyComplete(p)

NextLocks ==
  \/ \E p \in Procs, u \in Users : ConsumeCheck(p, u, "exam", 1)
  \/ \E p \in Procs : BeginExpire(p)
  \/ \E p \in Procs : BeginReset(p)
  \/ \E u \in Buyers : orders = <<>> /\ CreateOrder(u, "basic")
  \/ \E p \in Procs : VerifyRead(p, 1, "TEST1")
  \/ \E p \in Procs : AcquireLock(p)
  \/ \E p \in Procs : LockedConsumeCommit(p)
  \/ \E p \in Procs : JobCommit(p)
  \/ \E p \in Procs : DeadlockAbort(p)
  \/ \E p \in Procs : LockedVerifySave(p)
  \/ \E p \in Procs : LockedVerifyComplete(p)
  \/ Tick(HoursPerDay)

(* Every request thread keeps running, and a lock wait is served when the  *)
(* row becomes free.                                                       *)
SpecLocks == InitLocks /\ [][NextLocks]_vars /\ \A p \in Procs : SF_vars(ProcStep(p))

(* Purchases: users with bundles buy directly while exams are consumed. *)
NextPurchase ==
  \/ \E u \in Users, d \in DefIds : PurchaseBundle(u, d)
  \/ \E p \in Procs, u \in Users, q \in Quantities : ConsumeCheck(p, u, "exam", q)
  \/ \E p \in Procs : ConsumeCommit(p)

SpecPurchase == InitUpgrade /\ [][NextPurchase]_vars

(* ------------------------------ properties ----------------------------- *)
Quota(d, rtype) ==
  CASE rtype = "exam" -> Catalog[d].exam_quota
    [] rtype = "chat" -> Catalog[d].total_chat_quota
    [] OTHER -> Catalog[d].search_quota

MeteredKinds == {"exam", "chat", "search"}

Bounded(d, rtype) == rtype \in MeteredKinds /\ Quota(d, rtype) > 0

QuotaFailures == {"exhausted", "insufficient"}

(* C1: when a call of consume_resource(quantity 1) has succeeded on a      *)
(* bounded resource of which it read remaining = 1, a concurrent call for  *)
(* the same bundle and resource that also read remaining = 1 returns a     *)
(* quota-exhausted failure, leaves the counter at 0 and writes no row.     *)
C1_SecondCallQuotaExhausted ==
  [][\A p \in Procs :
       (/\ proc[p].pc = "cr_checked" /\ proc'[p].pc = "idle"
        /\ proc[p].qty = 1 /\ proc[p].seen = 1
        /\ ret.call = "consume" /\ ret.res = "ok" /\ ret.qty = 1 /\ ret.seen = 1
        /\ ret.bid = proc[p].bid /\ ret.rtype = proc[p].rtype
        /\ Remaining(bundles[proc[p].bid], proc[p].rtype) = 0)
       => (/\ ret'.res \in QuotaFailures
           /\ Remaining(bundles'[proc[p].bid], proc[p].rtype) = 0
           /\ ledger' = ledger)]_vars

CounterFields(b) ==
  <<b.exams_remaining, b.chats_remaining, b.search_remaining,
    b.total_chats_consumed, b.daily_chats_used>>

(* C3: a step writes a bundle's counters (or creates the bundle) exactly   *)
(* when it appends a ResourceTransaction row for that bundle: no counter   *)
(* changes without a row, and every new row records the write committed    *)
(* with it (consume: the balances before and after; reset: the daily       *)
(* counter zeroed; expiry: the bundle deactivated; purchase: the bundle    *)
(* created).                                                               *)
C3_LedgerPairing ==
  [][/\ \A b \in 1..Len(bundles') :
          (b > Len(bundles) \/ CounterFields(bundles'[b]) # CounterFields(bundles[b]))
          => \E i \in (Len(ledger) + 1)..Len(ledger') : ledger'[i].bundle = b
     /\ \A i \in (Len(ledger) + 1)..Len(ledger') :
          LET r == ledger'[i]
              b == r.bundle
          IN CASE r.type = "purchase" -> b > Len(bundles)
               [] r.type = "consume" -> /\ b <= Len(bundles)
                                        /\ r.before = Snapshot(bundles[b])
                                        /\ r.after = Snapshot(bundles'[b])
               [] r.type = "reset" -> /\ b <= Len(bundles)
                                      /\ bundles'[b].daily_chats_used = 0
                                      /\ bundles'[b].last_chat_reset = now
               [] OTHER -> /\ b <= Len(bundles)
                           /\ bundles[b].is_active /\ ~bundles'[b].is_active]_vars

ConsumeRow(b, r) == r.bundle = b /\ r.type = "consume"

ConsumeRows(b) == SelectSeq(ledger, LAMBDA r : ConsumeRow(b, r))

LinearChain(rows) == \A i \in 2..Len(rows) : rows[i].before = rows[i - 1].after

(* C8 as stated: per bundle, each consume row's before-snapshot is the     *)
(* after-snapshot of the consume row committed just before it, and no two  *)
(* consume rows record the same before-snapshot.                           *)
C8_LinearHistory ==
  \A b \in BundleIds :
    LET rows == ConsumeRows(b) IN
    /\ LinearChain(rows)
    /\ \A i, j \in 1..Len(rows) : i # j => rows[i].before # rows[j].before

(* C8 amended: per bundle, each consume row's before-snapshot is the       *)
(* after-snapshot of the consume row committed just before it, and no two  *)
(* consume rows of resources that the bundle's definition bounds record    *)
(* the same before-snapshot.                                               *)
C8_LinearHistoryBounded ==
  \A b \in BundleIds :
    LET rows == ConsumeRows(b) IN
    /\ LinearChain(rows)
    /\ \A i, j \in 1..Len(rows) :
         (/\ i # j
          /\ Bounded(bundles[b].def, rows[i].rtype)
          /\ Bounded(bundles[b].def, rows[j].rtype))
         => rows[i].before # rows[j].before

(* A bundle with two consume rows of bounded resources and a consume row   *)
(* of an unmetered one.                                                    *)
C8_Witness ==
  \E b \in BundleIds :
    LET rows == ConsumeRows(b) IN
    /\ \E i, j \in 1..Len(rows) :
         /\ i < j
         /\ Bounded(bundles[b].def, rows[i].rtype)
         /\ Bounded(bundles[b].def, rows[j].rtype)
    /\ \E i \in 1..Len(rows) : ~Bounded(bundles[b].def, rows[i].rtype)

(* ------------------------- order engine properties --------------------- *)
AllowedEdges ==
  {<<"pending", "payment_verified">>, <<"pending", "insufficient_funds">>,
   <<"pending", "expired">>, <<"pending", "cancelled">>,
   <<"payment_verified", "completed">>,
   <<"insufficient_funds", "completed">>, <<"insufficient_funds", "cancelled">>}

TerminalStatuses == {"completed", "cancelled", "expired"}

(* C4: an order's status changes only along the allowed edges, and once it *)
(* is Completed, Cancelled or Expired no step changes its status or        *)
(* creates a bundle for it.                                                *)
C4_StatusEdges ==
  [][\A o \in OrderIds :
       /\ orders'[o].status # orders[o].status
            => <<orders[o].status, orders'[o].status>> \in AllowedEdges
       /\ orders[o].status \in TerminalStatuses
            => /\ orders'[o].status = orders[o].status
               /\ orders'[o].resulting_bundle = orders[o].resulting_bundle
               /\ \A r \in purchases' \ purchases : r.order # o]_vars

Linked(ord, o, bs, pur, led) ==
  LET rb == ord.resulting_bundle IN
  /\ rb \in 1..Len(bs)
  /\ bs[rb].def = ord.def
  /\ bs[rb].user = ord.user
  /\ \E r \in pur : r.order = o /\ r.user_bundle = rb /\ r.def = ord.def
  /\ \E i \in 1..Len(led) : led[i].bundle = rb /\ led[i].type = "purchase"

(* C5: after every step an order is Completed exactly when it is linked to *)
(* a resulting bundle of its definition and owner with a receipt for the   *)
(* order and a purchase transaction for the bundle; the step that          *)
(* completes an order creates that bundle and sets the owner's pointer to  *)
(* it; a bundle or a receipt appears only in a step that completes an      *)
(* order; and a complete_order that fails or finds the order not           *)
(* PaymentVerified changes nothing.                                        *)
C5_CompletionIsOneUnit ==
  [][/\ \A o \in 1..Len(orders') :
          orders'[o].status = "completed"
          <=> Linked(orders'[o], o, bundles', purchases', ledger')
     /\ \A o \in OrderIds :
          (orders[o].status # "completed" /\ orders'[o].status = "completed")
          => /\ Len(bundles') = Len(bundles) + 1
             /\ orders'[o].resulting_bundle = Len(bundles')
             /\ active'[orders'[o].user] = Len(bundles')
     /\ (Len(bundles') # Len(bundles) \/ purchases' # purchases)
          => \E o \in OrderIds :
               orders[o].status # "completed" /\ orders'[o].status = "completed"
     /\ \A p \in Procs :
          (/\ proc[p].pc = "vp_complete" /\ proc'[p].pc = "idle"
           /\ (ret'.res # "completed" \/ orders[proc[p].oid].status # "payment_verified"))
          => UNCHANGED <<bundles, orders, active, purchases, ledger>>]_vars

(* An order completed by one verify_payment while the complete_order of a  *)
(* concurrent verify_payment for it failed.                                *)
C5_Witness ==
  /\ ret.call = "verify" /\ ret.res = "error"
  /\ ret.oid \in OrderIds
  /\ orders[ret.oid].status = "completed"
  /\ Linked(orders[ret.oid], ret.oid, bundles, purchases, ledger)

BundleRows(b) == SelectSeq(ledger, LAMBDA r : r.bundle = b)

Quotas(d) == <<Quota(d, "exam"), Quota(d, "chat"), Quota(d, "search")>>

Component(snap, rtype) ==
  CASE rtype = "exam" -> snap[1]
    [] rtype = "chat" -> snap[2]
    [] OTHER -> snap[3]

(* C6: for every bundle the rows of its ledger replay to its counters: the *)
(* first row's after-snapshot is the definition's quotas, each later row's *)
(* before-snapshot is the previous row's after-snapshot, a consume row of  *)
(* a bounded resource changes that resource by its signed quantity, and    *)
(* the last row's after-snapshot is the bundle's current balances.         *)
C6_ReplayReconstructsCounters ==
  \A b \in BundleIds :
    LET rows == BundleRows(b)
        d == bundles[b].def
    IN /\ Len(rows) > 0
       /\ rows[1].after = Quotas(d)
       /\ \A i \in 2..Len(rows) : rows[i].before = rows[i - 1].after
       /\ \A i \in 1..Len(rows) :
            (rows[i].type = "consume" /\ Bounded(d, rows[i].rtype))
            => Component(rows[i].after, rows[i].rtype)
                 - Component(rows[i].before, rows[i].rtype) = rows[i].quantity
       /\ rows[Len(rows)].after = Snapshot(bundles[b])

(* C7: an order is PaymentVerified only while the verify_payment call that *)
(* verified it is about to complete it: no order stays PaymentVerified     *)
(* without a bundle once the call has returned.                            *)
C7_NeverLeftPaymentVerified ==
  \A o \in OrderIds :
    orders[o].status = "payment_verified"
    => \E p \in Procs : proc[p].pc = "vp_complete" /\ proc[p].oid = o

(* C9: when verify_payment with a sufficient amount returns completed, the *)
(* order is Completed, its resulting bundle has every balance equal to the *)
(* definition's quota and nothing consumed, and the bundle is the owner's  *)
(* active bundle.                                                          *)
C9_SufficientPaymentFullQuota ==
  [][\A p \in Procs :
       (proc[p].pc = "vp_complete" /\ proc'[p].pc = "idle" /\ ret'.res = "completed")
       => LET ord == orders'[proc[p].oid]
              rb == ord.resulting_bundle
          IN /\ ord.status = "completed"
             /\ ord.verified_amount >= ord.order_amount
             /\ rb \in 1..Len(bundles')
             /\ Snapshot(bundles'[rb]) = Quotas(ord.def)
             /\ bundles'[rb].total_chats_consumed = 0
             /\ bundles'[rb].daily_chats_used = 0
             /\ bundles'[rb].is_active
             /\ active'[ord.user] = rb]_vars

Cheapest == CHOOSE x \in activeDefs : \A y \in activeDefs : Catalog[x].price_etb <= Catalog[y].price_etb

(* C10: verify_payment with an insufficient amount saves the order as      *)
(* InsufficientFunds and creates no bundle; it then returns                *)
(* insufficient_funds with deficit = order amount - verified amount, and   *)
(* the suggestion rows it has added are all of definitions priced within   *)
(* the verified amount, or are the single cheapest active definition with  *)
(* the deficit note when no active definition is priced within it.         *)
C10_InsufficientPayment ==
  [][\A p \in Procs :
       /\ (proc[p].pc = "vp_read" /\ proc'[p].pc = "vp_suggest")
          => /\ orders'[proc[p].oid].status = "insufficient_funds"
             /\ bundles' = bundles
       /\ (proc[p].pc = "vp_suggest" /\ proc'[p].pc = "idle")
          => LET ord == proc[p].ord
                 added == suggestions' \ suggestions
             IN /\ bundles' = bundles
                /\ ret'.res = "insufficient_funds"
                /\ ret'.deficit = ord.order_amount - ord.verified_amount
                /\ \A s \in added : s.order = proc[p].oid
                /\ \/ \A s \in added : Catalog[s.def].price_etb <= ord.verified_amount
                   \/ /\ Affordable(ord.verified_amount) = {}
                      /\ \A s \in added : s.def = Cheapest /\ s.reason = "cheapest"
                      /\ Cardinality(added) <= 1]_vars

(* ------------------------- failure scenarios --------------------------- *)
(* A consume_resource call by user u that returned from its checks in this *)
(* step, without entering the atomic block.                                *)
ConsumeRefused(u) ==
  /\ ret'.call = "consume" /\ ret'.user = u
  /\ proc' = proc

(* C11: a consume_resource call for a user whose active bundle is past its *)
(* expiry fails with the BundleExpired kind and leaves every counter and   *)
(* the transaction log unchanged, swept by expire_bundles or not.          *)
C11_ExpiredBundleRefused ==
  [][\A u \in Users :
       (/\ active[u] # 0
        /\ BundleExpired(bundles[active[u]], now)
        /\ ConsumeRefused(u))
       => /\ ret'.res = "expired"
          /\ UNCHANGED <<bundles, ledger>>]_vars

(* C12: consume_resource(kind, 1) on an active, unexpired bundle whose     *)
(* definition bounds the kind (exam, chat or search) and whose remaining   *)
(* count of it is 0 fails with QuotaExhausted, and no step of the call     *)
(* changes a counter or appends a transaction row.                         *)
C12_ExhaustedQuotaRefused ==
  [][/\ \A u \in Users :
          (/\ get_active_bundle(u) # 0
           /\ ConsumeRefused(u)
           /\ ret'.qty = 1
           /\ Bounded(bundles[get_active_bundle(u)].def, ret'.rtype)
           /\ Remaining(bundles[get_active_bundle(u)], ret'.rtype) = 0)
          => /\ ret'.res = "exhausted"
             /\ UNCHANGED <<bundles, ledger>>
     /\ \A p \in Procs :
          (/\ proc[p].call = "consume" /\ proc[p].qty = 1 /\ proc[p].seen = 0
           /\ proc'[p] # proc[p])
          => /\ UNCHANGED <<bundles, ledger>>
             /\ proc'[p].pc = "idle" => ret'.res = "exhausted"]_vars

(* C13: accept_suggestion for an order and a definition that no suggestion *)
(* row links, or for an order that does not exist, returns the invalid     *)
(* result and changes no order, bundle, pointer, receipt, suggestion or    *)
(* transaction row.                                                        *)
C13_UnlinkedSuggestionRefused ==
  [][(/\ ret'.call = "accept"
      /\ \/ ret'.oid \notin OrderIds
         \/ \A s \in suggestions : ~(s.order = ret'.oid /\ s.def = ret'.def))
     => /\ ret'.res = "invalid"
        /\ UNCHANGED <<bundles, orders, active, purchases, suggestions, ledger>>]_vars

(* An order with suggestion rows was asked for a definition that was not   *)
(* suggested for it.                                                       *)
C13_Witness ==
  /\ ret.call = "accept" /\ ret.res = "invalid"
  /\ ret.oid \in OrderIds
  /\ orders[ret.oid].status = "insufficient_funds"
  /\ \E s \in suggestions : s.order = ret.oid /\ s.def # ret.def
  /\ bundles = <<>>

(* A verify_payment call on order o with a reference the verifier accepts  *)
(* gets past the status, deadline and verifier checks.                     *)
RetryAdmitted(o) ==
  \E p \in Procs : VerifyRead(p, o, "TEST1") /\ proc'[p].pc = "vp_read"

(* C14: when the verifier reports failure (a reference that does not start *)
(* with TEST) for a Pending order within its deadline, verify_payment      *)
(* returns verification_failed, leaves the order row as it was (Pending,   *)
(* reference and verified amount untouched) and creates no bundle,         *)
(* receipt, suggestion or transaction; no such call goes on to the save;   *)
(* in the state it leaves, a verify_payment with an accepted reference is  *)
(* admitted.                                                               *)
C14_VerifierFailureLeavesPending ==
  /\ [][\A o \in OrderIds :
          (/\ ret'.call = "verify" /\ ret'.oid = o /\ proc' = proc
           /\ orders[o].status = "pending"
           /\ ~(orders[o].expires_at < now)
           /\ ret'.ref = "BAD1")
          => /\ ret'.res = "verification_failed"
             /\ orders'[o].status = "pending"
             /\ UNCHANGED <<orders, bundles, active, purchases, suggestions, ledger>>]_vars
  /\ [](\A p \in Procs : proc[p].call = "verify" => proc[p].ref # "BAD1")
  /\ [](ret.res = "verification_failed" => ENABLED RetryAdmitted(ret.oid))

(* A verifier failure was reported for an order that has never been        *)
(* verified.                                                               *)
C14_Witness ==
  /\ ret.call = "verify" /\ ret.res = "verification_failed"
  /\ orders[ret.oid].status = "pending"
  /\ orders[ret.oid].reference_number = ""
  /\ orders[ret.oid].verified_amount = Null

(* C15: verify_payment on an order that is not Pending returns not_found   *)
(* and changes nothing; on a Pending order past its deadline it sets the   *)
(* order Expired, returns expired and creates no bundle, receipt,          *)
(* suggestion or transaction; both whatever the reference, and only a      *)
(* call that read a Pending order within its deadline goes past the        *)
(* verifier.                                                               *)
C15_NotPendingOrLateRejected ==
  [][/\ \A o \in OrderIds :
          (ret'.call = "verify" /\ ret'.oid = o /\ proc' = proc)
          => /\ orders[o].status # "pending"
                  => /\ ret'.res = "not_found"
                     /\ UNCHANGED orders
             /\ (orders[o].status = "pending" /\ orders[o].expires_at < now)
                  => /\ ret'.res = "expired"
                     /\ orders' = [orders EXCEPT ![o].status = "expired"]
             /\ UNCHANGED <<bundles, active, purchases, suggestions, ledger>>
     /\ \A p \in Procs :
          (proc[p].pc = "idle" /\ proc'[p].pc = "vp_read")
          => /\ orders[proc'[p].oid].status = "pending"
             /\ ~(orders[proc'[p].oid].expires_at < now)]_vars

(* A late Pending order was set Expired by a call whose reference the      *)
(* verifier would have confirmed.                                          *)
C15_Witness ==
  /\ ret.call = "verify" /\ ret.res = "expired" /\ ret.ref = "TEST1"
  /\ orders[ret.oid].status = "expired"
  /\ orders[ret.oid].expires_at < now
  /\ orders[ret.oid].verified_amount = Null
  /\ bundles = <<>>

(* C16: cancel_order returns success and sets the order Cancelled exactly  *)
(* when the status its query reads is Pending or InsufficientFunds; for    *)
(* any other status, or no such order, it returns failure and leaves the   *)
(* orders unchanged; it never changes a bundle, the active pointer, a      *)
(* receipt, a suggestion or a transaction.                                 *)
C16_CancelOnlyOpenOrders ==
  [][\A o \in 1..MaxOrders :
       (ret'.call = "cancel" /\ ret'.oid = o)
       => /\ IF o \in OrderIds /\ orders[o].status \in {"pending", "insufficient_funds"}
             THEN /\ ret'.res = "ok"
                  /\ orders' = [orders EXCEPT ![o].status = "cancelled"]
             ELSE /\ ret'.res # "ok"
                  /\ UNCHANGED orders
          /\ UNCHANGED <<bundles, active, purchases, suggestions, ledger>>]_vars

(* cancel_order was refused for a Completed order, whose bundle is still   *)
(* the owner's active bundle.                                              *)
C16_Witness ==
  /\ ret.call = "cancel" /\ ret.res = "not_found"
  /\ ret.oid \in OrderIds
  /\ orders[ret.oid].status = "completed"
  /\ orders[ret.oid].resulting_bundle # 0
  /\ active[orders[ret.oid].user] = orders[ret.oid].resulting_bundle

C18_NewBundleFullQuota ==
  [][(Len(bundles') > Len(bundles))
     => LET nb == bundles'[Len(bundles')]
        IN /\ Snapshot(nb) = Quotas(nb.def)
           /\ nb.total_chats_consumed = 0
           /\ nb.daily_chats_used = 0
           /\ nb.is_active
           /\ nb.expiry_date = now + Catalog[nb.def].validity_days * HoursPerDay]_vars

(* C19: a run of reset_daily_chats leaves no active bundle whose last      *)
(* reset predates the day boundary, so that a run with none such, and in   *)
(* particular a second run directly after a first, changes no bundle,      *)
(* appends no row and reports no bundle reset; a run appends one reset     *)
(* row for each bundle it reports.                                         *)
C19_ResetIdempotent ==
  [][ret'.call = "reset_daily_chats"
     => /\ \A b \in BundleIds :
             bundles'[b].is_active => bundles'[b].last_chat_reset >= now - (now % HoursPerDay)
        /\ Len(ledger') = Len(ledger) + ret'.qty
        /\ \A i \in (Len(ledger) + 1)..Len(ledger') : ledger'[i].type = "reset"
        /\ (\/ ret.call = "reset_daily_chats"
            \/ \A b \in BundleIds :
                 bundles[b].is_active => bundles[b].last_chat_reset >= now - (now % HoursPerDay))
             => /\ UNCHANGED <<bundles, ledger>>
                /\ ret'.qty = 0]_vars

(* The job has just run without resetting anything, on a day on which it   *)
(* had already reset a bundle and written its row.                         *)
C19_Witness ==
  /\ ret.call = "reset_daily_chats" /\ ret.qty = 0
  /\ now >= HoursPerDay
  /\ \E b \in BundleIds :
       /\ bundles[b].is_active
       /\ bundles[b].last_chat_reset >= now - (now % HoursPerDay)
       /\ \E i \in 1..Len(ledger) : ledger[i].type = "reset" /\ ledger[i].bundle = b

(* C20: counting the lazy reset of the chat admission check and the        *)
(* reset_daily_chats job together, two resets of the same bundle are at    *)
(* least one day apart: a bundle bought at hour 0 whose last_chat_reset is *)
(* later than that has been reset then, and is not reset again before a    *)
(* day has passed.                                                         *)
C20_ResetsADayApart ==
  [][\A b \in BundleIds :
       (/\ bundles[b].last_chat_reset > 0
        /\ bundles'[b].last_chat_reset # bundles[b].last_chat_reset)
       => bundles'[b].last_chat_reset - bundles[b].last_chat_reset >= HoursPerDay]_vars

(* C21: for every bundle whose definition has a positive daily chat limit, *)
(* daily_chats_used never exceeds that limit, whatever the quantities and  *)
(* the interleaving of the chat consumers.                                 *)
C21_DailyLimitHolds ==
  \A b \in BundleIds :
    Catalog[bundles[b].def].daily_chat_limit > 0
      => bundles[b].daily_chats_used <= Catalog[bundles[b].def].daily_chat_limit

(* C22: no step of a check_resource_access call, for any resource kind and *)
(* any bundle state, changes a UserBundle row, the active pointer or the   *)
(* transaction log.                                                        *)
C22_CheckIsReadOnly ==
  [][(\/ ret'.call = "check"
      \/ \E p \in Procs : proc[p].call = "check" /\ proc'[p] # proc[p])
     => UNCHANGED <<bundles, active, ledger>>]_vars

(* C23: a run of expire_bundles deactivates exactly the bundles that are   *)
(* flagged active and past their expiry and changes nothing else of any    *)
(* bundle, appends exactly one expiry row for each of them and no other    *)
(* row, clears exactly the pointers that named one of them, and reports    *)
(* their number; a run directly after a run appends nothing.               *)
C23_ExpireSweep ==
  [][ret'.call = "expire_bundles"
     => LET due == {b \in BundleIds : bundles[b].is_active /\ bundles[b].expiry_date < now}
            new == {i \in 1..Len(ledger') : i > Len(ledger)}
        IN /\ Len(bundles') = Len(bundles)
           /\ \A b \in BundleIds :
                bundles'[b] = IF b \in due THEN [bundles[b] EXCEPT !.is_active = FALSE]
                              ELSE bundles[b]
           /\ Len(ledger') = Len(ledger) + Cardinality(due)
           /\ \A i \in 1..Len(ledger) : ledger'[i] = ledger[i]
           /\ \A i \in new : ledger'[i].type = "expiry" /\ ledger'[i].bundle \in due
           /\ \A b \in due : Cardinality({i \in new : ledger'[i].bundle = b}) = 1
           /\ \A u \in Users : active'[u] = IF active[u] \in due THEN 0 ELSE active[u]
           /\ ret'.qty = Cardinality(due)
           /\ ret.call = "expire_bundles" => UNCHANGED <<bundles, active, ledger>>]_vars

(* The job has just expired the superseded one-day bundle of a buyer whose *)
(* pointer names the two-day bundle: the pointer and that bundle stand.    *)
C23_Witness ==
  /\ ret.call = "expire_bundles" /\ ret.qty = 1
  /\ Len(bundles) = 2
  /\ ~bundles[1].is_active /\ bundles[1].user = "u1"
  /\ bundles[2].is_active /\ bundles[2].user = "u1"
  /\ active["u1"] = 2
  /\ ledger[Len(ledger)].type = "expiry" /\ ledger[Len(ledger)].bundle = 1

(* C24: the atomic block of consume_resource admits the call again under   *)
(* the row lock: when the bundle it locks is no longer flagged active or   *)
(* is past its expiry, the block changes no bundle, appends no row and     *)
(* does not return success; hence no consume row of a bundle follows an    *)
(* expiry row of that bundle in the log.                                   *)
C24_RevalidatedUnderLock ==
  [][/\ \A p \in Procs :
          (/\ proc[p].pc = "cr_checked"
           /\ proc'[p] # proc[p]
           /\ \/ ~bundles[proc[p].bid].is_active
              \/ bundles[proc[p].bid].expiry_date < now)
          => /\ UNCHANGED <<bundles, ledger>>
             /\ ret'.res # "ok"
     /\ \A i, j \in 1..Len(ledger') :
          (i < j /\ ledger'[i].type = "expiry" /\ ledger'[j].bundle = ledger'[i].bundle)
          => ledger'[j].type # "consume"]_vars

(* C25: deactivation is final.  A bundle that is not flagged active is     *)
(* never flagged active again and none of its fields changes in any step;  *)
(* no bundle row and no transaction row is ever removed or rewritten.      *)
C25_InactiveIsFinal ==
  [][/\ Len(bundles') >= Len(bundles)
     /\ \A b \in BundleIds : ~bundles[b].is_active => bundles'[b] = bundles[b]
     /\ Len(ledger') >= Len(ledger)
     /\ \A i \in 1..Len(ledger) : ledger'[i] = ledger[i]]_vars

(* C26: a call of get_budget_suggestions writes nothing and returns at     *)
(* most three suggestions in descending order of score, none of them for   *)
(* an inactive definition; when some active definition is priced within    *)
(* the budget every returned definition is priced within it; when none is  *)
(* (and the catalogue has an active definition) it returns the cheapest    *)
(* active definition alone, with deficit = its price - budget.             *)
C26_BudgetSuggestions ==
  [][ret'.call = "get_budget_suggestions"
     => LET items == ret'.items
            budget == ret'.budget
            within == {d \in activeDefs : Catalog[d].price_etb <= budget}
        IN /\ UNCHANGED dbVars
           /\ ~ret'.raised
           /\ Len(items) <= TopSuggestions
           /\ \A i, j \in 1..Len(items) :
                i < j => items[j].num * items[i].den <= items[i].num * items[j].den
           /\ \A i \in 1..Len(items) : items[i].bundle \in activeDefs
           /\ within # {} => \A i \in 1..Len(items) : items[i].bundle \in within
           /\ (within = {} /\ activeDefs # {})
              => /\ Len(items) = 1
                 /\ \A d \in activeDefs :
                      Catalog[items[1].bundle].price_etb <= Catalog[d].price_etb
                 /\ items[1].deficit = Catalog[items[1].bundle].price_etb - budget]_vars

(* C27: can_upgrade_existing_bundle returns a truthy value exactly when    *)
(* the user's pointer names a bundle that is flagged active and unexpired  *)
(* and some active definition is priced above that bundle's definition and *)
(* no more than its price plus the additional amount; otherwise it returns *)
(* False.  It writes nothing.                                              *)
C27_CanUpgrade ==
  [][ret'.call = "can_upgrade"
     => LET u == ret'.user
            held == /\ active[u] # 0
                    /\ bundles[active[u]].is_active
                    /\ ~(bundles[active[u]].expiry_date < now)
            cur == Catalog[bundles[active[u]].def].price_etb
        IN /\ ret'.res \in {"dict", "False"}
           /\ ret'.res = "dict"
              <=> (held /\ \E d \in activeDefs :
                            /\ Catalog[d].price_etb > cur
                            /\ Catalog[d].price_etb <= cur + ret'.qty)
           /\ UNCHANGED dbVars]_vars

(* Both answers occur for a holder of a live bundle: the call has just     *)
(* returned the dictionary for one additional amount, and a larger-priced  *)
(* active definition exists that a smaller amount would not reach.         *)
C27_Witness ==
  /\ ret.call = "can_upgrade" /\ ret.res = "dict"
  /\ active[ret.user] # 0
  /\ ~BundleExpired(bundles[active[ret.user]], now)
  /\ UpgradeBundles(Catalog[bundles[active[ret.user]].def].price_etb, 0) = {}

C29_AcceptCompletes ==
  [][(ret'.call = "accept" /\ ret'.res = "ok")
     => LET o == ret'.oid
            d == ret'.def
            id == Len(bundles) + 1
        IN /\ orders'[o].status = "completed"
           /\ orders'[o].def = d
           /\ orders'[o].order_amount = Catalog[d].price_etb
           /\ orders'[o].verified_amount = orders[o].verified_amount
           /\ orders'[o].resulting_bundle = id
           /\ Len(bundles') = id
           /\ bundles'[id].def = d /\ bundles'[id].user = orders[o].user
           /\ bundles'[id].exams_remaining = Catalog[d].exam_quota
           /\ bundles'[id].chats_remaining = Catalog[d].total_chat_quota
           /\ bundles'[id].search_remaining = Catalog[d].search_quota
           /\ active'[orders[o].user] = id
           /\ \E r \in purchases' \ purchases :
                r.order = o /\ r.def = d /\ r.user_bundle = id]_vars

(* C30: purchase_bundle for an active definition returns success and in    *)
(* the same step writes the receipt, creates the user's bundle with the    *)
(* definition's quotas as balances, points the user at it and appends its  *)
(* purchase row; for a definition that is unknown or inactive it fails and *)
(* writes nothing.                                                         *)
C30_DirectPurchase ==
  [][ret'.call = "purchase_bundle"
     => LET u == ret'.user
            d == ret'.def
            id == Len(bundles) + 1
        IN IF d \in activeDefs
           THEN /\ ret'.res = "ok"
                /\ Len(bundles') = id
                /\ bundles'[id].user = u /\ bundles'[id].def = d
                /\ bundles'[id].exams_remaining = Catalog[d].exam_quota
                /\ bundles'[id].chats_remaining = Catalog[d].total_chat_quota
                /\ bundles'[id].search_remaining = Catalog[d].search_quota
                /\ active'[u] = id
                /\ \E r \in purchases' \ purchases : r.def = d /\ r.user_bundle = id
                /\ Len(ledger') = Len(ledger) + 1
                /\ ledger'[Len(ledger')].type = "purchase"
                /\ ledger'[Len(ledger')].bundle = id
           ELSE /\ ret'.res # "ok"
                /\ UNCHANGED dbVars]_vars

(* C31: every order in status Completed carries a verified amount that is  *)
(* at least its order amount, and the bundle it produced is of a           *)
(* definition priced within that verified amount.                          *)
C31_PaidInFull ==
  \A o \in OrderIds :
    orders[o].status = "completed"
    => /\ orders[o].verified_amount >= orders[o].order_amount
       /\ Catalog[bundles[orders[o].resulting_bundle].def].price_etb
            <= orders[o].verified_amount

(* C32: an order has at most one receipt and every bundle belongs to       *)
(* exactly one receipt, so an order yields at most one bundle; a step of a *)
(* verify_payment or accept_suggestion call on an order that already has   *)
(* its receipt creates no bundle, receipt or transaction row and leaves    *)
(* the active pointers alone.                                              *)
C32_OneCompletionPerOrder ==
  [][/\ \A o \in 1..Len(orders') :
          Cardinality({r \in purchases' : r.order = o}) <= 1
     /\ \A b \in 1..Len(bundles') :
          Cardinality({r \in purchases' : r.user_bundle = b}) = 1
     /\ \A o \in OrderIds :
          (/\ \E r \in purchases : r.order = o
           /\ \/ ret'.call \in {"verify", "accept"} /\ ret'.oid = o
              \/ \E p \in Procs : proc[p].oid = o /\ proc'[p] # proc[p])
          => UNCHANGED <<bundles, purchases, ledger, active>>]_vars

(* A second attempt on an order that already has its receipt and bundle    *)
(* has just been turned away.                                              *)
C32_Witness ==
  /\ ret.call \in {"verify", "accept"} /\ ret.res = "error"
  /\ ret.oid \in OrderIds
  /\ \E r \in purchases : r.order = ret.oid
  /\ Len(bundles) = 1

(* C33: every step that moves an order to Completed is taken at a time not *)
(* later than the order's expires_at.                                      *)
C33_CompletedBeforeDeadline ==
  [][\A o \in OrderIds :
       (orders[o].status # "completed" /\ orders'[o].status = "completed")
       => now <= orders[o].expires_at]_vars

(* C34: daily_chats_used counts the chats consumed since last_chat_reset,  *)
(* so no step lowers the daily counter of a bundle unless it moves the     *)
(* bundle's last_chat_reset to a later time, and a step that leaves        *)
(* last_chat_reset alone changes the counter only by the quantity of the   *)
(* chat consumption it commits.                                            *)
C34_NoLostDailyUpdate ==
  [][\A b \in BundleIds :
       /\ bundles'[b].daily_chats_used < bundles[b].daily_chats_used
          => bundles'[b].last_chat_reset > bundles[b].last_chat_reset
       /\ bundles'[b].last_chat_reset < bundles[b].last_chat_reset
          => bundles'[b].daily_chats_used >= bundles[b].daily_chats_used]_vars

RECURSIVE ConsumedInLog(_, _, _)
(* The quantity the first n rows of the log record as consumed from bundle *)
(* b for kind rtype: consume rows carry the negated quantity.              *)
ConsumedInLog(b, rtype, n) ==
  IF n = 0 THEN 0
  ELSE ConsumedInLog(b, rtype, n - 1)
       + (IF ledger[n].bundle = b /\ ledger[n].type = "consume" /\ ledger[n].rtype = rtype
          THEN -ledger[n].quantity ELSE 0)

(* C35: for every bundle, a bounded chat quota equals chats_remaining plus *)
(* total_chats_consumed, and a bounded exam or search quota less the       *)
(* remaining count equals the quantity the bundle's consume rows of that   *)
(* kind record.                                                            *)
C35_QuotaConserved ==
  \A b \in BundleIds :
    LET c == Catalog[bundles[b].def] IN
    /\ c.total_chat_quota # 0
       => bundles[b].chats_remaining + bundles[b].total_chats_consumed = c.total_chat_quota
    /\ c.exam_quota # 0
       => c.exam_quota - bundles[b].exams_remaining = ConsumedInLog(b, "exam", Len(ledger))
    /\ c.search_quota # 0
       => c.search_quota - bundles[b].search_remaining = ConsumedInLog(b, "search", Len(ledger))

(* C36: a user's active-bundle pointer, when set, names an existing bundle *)
(* of that user whose is_active flag is true.                              *)
C36_PointerNamesLiveBundle ==
  \A u \in Users :
    active[u] # 0
    => /\ active[u] \in BundleIds
       /\ bundles[active[u]].user = u
       /\ bundles[active[u]].is_active

(* The expiry job has just deactivated the bundle an order completion had  *)
(* made the buyer's active one, and the buyer's pointer is clear.          *)
C36_Witness ==
  /\ ret.call = "expire_bundles" /\ ret.qty = 1
  /\ \E o \in OrderIds :
       /\ orders[o].status = "completed"
       /\ ~bundles[orders[o].resulting_bundle].is_active
       /\ active[orders[o].user] = 0

====
